---- MODULE Spec2Model ----
(***************************************************************************)
(* Verification model of the ai-report-generator pipeline:                 *)
(*   - utils/chunker.ts      (chunkText)                                   *)
(*   - utils/db.ts           (the IndexedDB-backed guideline store)        *)
(*   - services/geminiService.ts and App.tsx (report generation run)       *)
(*   - services/geminiService.ts (startChat, askQuestion and the versions  *)
(*     of askQuestion kept under src/unnamed)                              *)
(*   - the file reader (readFileContent) and the upload components         *)
(*   - App.tsx (guideline handling, analysis, full reset)                  *)
(*   - components/ReportView.tsx (the message list of ReportQnA)           *)
(*   - utils/db.ts with an engine that may fail (open, request, commit)    *)
(* Texts are sequences of one-character strings.  MAX_CHUNK_SIZE is scaled *)
(* down from 15000 so that oversized paragraphs fit in the bounded texts;  *)
(* chunkText only ever compares lengths with it.                           *)
(***************************************************************************)
EXTENDS Integers, Sequences, FiniteSets, TLC

\* ------------------------------------------------------------------------
\* Bounds
\* ------------------------------------------------------------------------
MaxTextLen == 6
MaxCalls == 2
MaxFiles == 2
MaxRuns == 1
MaxChats == 2
MaxAsks == 2
MaxAppCalls == 4
MaxAnalyses == 2
MaxPending == 1
MaxNameLen == 3
MaxOverlap == 2
MaxDropped == 3

\* ------------------------------------------------------------------------
\* utils/chunker.ts
\* ------------------------------------------------------------------------
MAX_CHUNK_SIZE == 3

NL == "\n"
Alphabet == {"a", " ", NL}
Whitespace == {" ", NL}

Texts == UNION {[1..n -> Alphabet] : n \in 0..MaxTextLen}

RECURSIVE Concat(_)
Concat(ss) == IF ss = <<>> THEN <<>> ELSE Head(ss) \o Concat(Tail(ss))

\* String.prototype.split(/(\n+)/): the pieces alternate text, newline run,
\* text, ..., text; the capturing group keeps the newline runs as pieces.
RECURSIVE SplitRec(_, _, _, _, _)
SplitRec(t, i, pieces, cur, inNL) ==
    IF i > Len(t)
    THEN IF inNL THEN pieces \o <<cur, <<>>>> ELSE Append(pieces, cur)
    ELSE IF t[i] = NL
         THEN IF inNL
              THEN SplitRec(t, i + 1, pieces, Append(cur, NL), TRUE)
              ELSE SplitRec(t, i + 1, Append(pieces, cur), <<NL>>, TRUE)
         ELSE IF inNL
              THEN SplitRec(t, i + 1, Append(pieces, cur), <<t[i]>>, FALSE)
              ELSE SplitRec(t, i + 1, pieces, Append(cur, t[i]), FALSE)

SplitNewlines(t) == SplitRec(t, 1, <<>>, <<>>, FALSE)

\* String.prototype.trim(): strips leading and trailing whitespace.
RECURSIVE TrimLeft(_)
TrimLeft(s) ==
    IF s = <<>> THEN s
    ELSE IF Head(s) \in Whitespace THEN TrimLeft(Tail(s)) ELSE s

RECURSIVE TrimRight(_)
TrimRight(s) ==
    IF s = <<>> THEN s
    ELSE IF s[Len(s)] \in Whitespace
         THEN TrimRight(SubSeq(s, 1, Len(s) - 1))
         ELSE s

Trim(s) == TrimRight(TrimLeft(s))

\* A filter that drops only the empty pieces.
KeepEveryPiece(p) == Len(p) > 0

KeepParagraph(p) == Len(Trim(p)) > 0

\* text.split(/(\n+)/).filter(p => p.trim().length > 0)
Paragraphs(t) == SelectSeq(SplitNewlines(t), KeepParagraph)

\* A substring that ignores its end index.
SubstringOpenEnd(s, from, to) == SubSeq(s, from + 1, Len(s))

\* String.prototype.substring(from, to) with 0-based, end-exclusive indices.
Substring(s, from, to) ==
    SubSeq(s, from + 1, IF to > Len(s) THEN Len(s) ELSE to)

\* One iteration of the accumulation loop; st = [chunks, currentChunk].
GreedyStepNoGuard(st, paragraph) ==
    IF Len(st.currentChunk) + Len(paragraph) > MAX_CHUNK_SIZE
    THEN [chunks |-> Append(st.chunks, st.currentChunk),
          currentChunk |-> paragraph]
    ELSE [st EXCEPT !.currentChunk = st.currentChunk \o paragraph]

GreedyStep(st, paragraph) ==
    IF Len(st.currentChunk) + Len(paragraph) > MAX_CHUNK_SIZE
    THEN [chunks |-> IF Len(st.currentChunk) > 0
                     THEN Append(st.chunks, st.currentChunk)
                     ELSE st.chunks,
          currentChunk |-> paragraph]
    ELSE [st EXCEPT !.currentChunk = st.currentChunk \o paragraph]

RECURSIVE GreedyLoop(_, _)
GreedyLoop(st, paragraphs) ==
    IF paragraphs = <<>> THEN st
    ELSE GreedyLoop(GreedyStep(st, Head(paragraphs)), Tail(paragraphs))

\* The loop over the paragraphs followed by the final push of currentChunk.
GreedyChunks(paragraphs) ==
    LET st == GreedyLoop([chunks |-> <<>>, currentChunk |-> <<>>], paragraphs)
    IN  IF Len(st.currentChunk) > 0
        THEN Append(st.chunks, st.currentChunk)
        ELSE st.chunks

\* for (i = 0; i < chunk.length; i += MAX) push(chunk.substring(i, i + MAX))
RECURSIVE HardSplitFrom(_, _)
HardSplitFrom(chunk, i) ==
    IF i < Len(chunk)
    THEN <<Substring(chunk, i, i + MAX_CHUNK_SIZE)>>
             \o HardSplitFrom(chunk, i + MAX_CHUNK_SIZE)
    ELSE <<>>

HardSplitSkipped(chunk) == <<chunk>>

HardSplit(chunk) ==
    IF Len(chunk) > MAX_CHUNK_SIZE
    THEN HardSplitFrom(chunk, 0)
    ELSE <<chunk>>

RECURSIVE FinalChunks(_)
FinalChunks(cs) ==
    IF cs = <<>> THEN <<>>
    ELSE HardSplit(Head(cs)) \o FinalChunks(Tail(cs))

chunkText(t) ==
    IF t = <<>> THEN <<>>
    ELSE FinalChunks(GreedyChunks(Paragraphs(t)))

VARIABLES text, chunks, chunkPc

chunkVars == <<text, chunks, chunkPc>>

ChunkInit ==
    /\ text \in Texts
    /\ chunks = <<>>
    /\ chunkPc = "start"

\* A caller applies chunkText to its text.
ChunkCall ==
    /\ chunkPc = "start"
    /\ chunks' = chunkText(text)
    /\ chunkPc' = "done"
    /\ UNCHANGED text


\* ------------------------------------------------------------------------
\* utils/db.ts: the guideline store on top of the IndexedDB engine
\* ------------------------------------------------------------------------
Names == {"g1", "g2"}
Contents == {"x", "y"}
Absent == "-"

\* getAll() returns the records in key order.
NameOrder == <<"g1", "g2">>

GuidelineFile ==
    {[name |-> "g1", content |-> "x"], [name |-> "g1", content |-> "y"],
     [name |-> "g2", content |-> "x"]}
FileLists == UNION {[1..n -> GuidelineFile] : n \in 0..MaxFiles}

\* The object store 'guidelines' with keyPath 'name': at most one record
\* per name.
StoreValues == [Names -> Contents \cup {Absent}]
EmptyStore == [n \in Names |-> Absent]

\* IDBObjectStore.clear()
StoreClearNoop(s) == s

StoreClear(s) == EmptyStore

\* IDBObjectStore.put(file): insert, or replace the record with that key.
StorePut(s, file) == [s EXCEPT ![file.name] = file.content]

HasName(s, n) == s[n] # Absent

\* IDBObjectStore.getAll(): every record, ordered by key.
StoreGetAll(s) ==
    LET present(n) == HasName(s, n)
        keys == SelectSeq(NameOrder, present)
    IN  [i \in 1..Len(keys) |-> [name |-> keys[i], content |-> s[keys[i]]]]

\* files.forEach(file => store.put(file))
PutRequests(files) == [i \in 1..Len(files) |-> [op |-> "put", file |-> files[i]]]

\* dbInstance.transaction(STORE_NAME, 'readwrite') with the clear request
\* placed; the puts are placed by the clear request's success handler.
saveTransaction(c, files) ==
    [call |-> c, mode |-> "readwrite", files |-> files,
     reqs |-> <<[op |-> "saveClear"]>>, done |-> FALSE]

getTransaction(c) ==
    [call |-> c, mode |-> "readonly", files |-> <<>>,
     reqs |-> <<[op |-> "getAll"]>>, done |-> FALSE]

clearTransaction(c) ==
    [call |-> c, mode |-> "readwrite", files |-> <<>>,
     reqs |-> <<[op |-> "clear"]>>, done |-> FALSE]

\* A variant that places the puts in a transaction of their own.
ClearRequestOnSuccessNewTx(ts, i) ==
    IF Len(ts[i].files) = 0
    THEN [ts EXCEPT ![i].reqs = <<>>]
    ELSE Append([ts EXCEPT ![i].reqs = <<>>],
                [call |-> ts[i].call, mode |-> "readwrite",
                 files |-> ts[i].files, reqs |-> PutRequests(ts[i].files),
                 done |-> FALSE])

\* clearRequest.onsuccess of saveGuidelinesToDB: nothing for an empty list,
\* else one put per file in the same transaction.
ClearRequestOnSuccess(ts, i) ==
    IF Len(ts[i].files) = 0
    THEN [ts EXCEPT ![i].reqs = <<>>]
    ELSE [ts EXCEPT ![i].reqs = PutRequests(ts[i].files)]

VARIABLES
    db,         \* the module-level handle: TRUE once an open has succeeded
    dbExists,   \* the database and its object store exist on disk
    store,      \* contents of the object store
    calls,      \* every call of save/get/clear made so far
    openQueue,  \* calls waiting for their indexedDB.open request
    txs,        \* the transactions, in creation order
    initStore,  \* history: the store contents at start
    lastWrite   \* history: target of the write call that resolved last

dbVars == <<db, dbExists, store, calls, openQueue, txs, initStore, lastWrite>>

IsWrite(c) == c.op \in {"save", "clear"}
InFlight(c) == c.pc \notin {"resolved", "rejected"}
WriteInFlight == \E i \in 1..Len(calls) : IsWrite(calls[i]) /\ InFlight(calls[i])

\* The collection a write call asks for, as store contents (a later file
\* of the same name replaces an earlier one).
RECURSIVE PutAll(_, _)
PutAll(s, files) ==
    IF files = <<>> THEN s
    ELSE PutAll([s EXCEPT ![Head(files).name] = Head(files).content], Tail(files))

Target(c) == IF c.op = "save" THEN PutAll(EmptyStore, c.files) ELSE EmptyStore

DBInit ==
    /\ db = FALSE
    /\ dbExists \in BOOLEAN
    /\ store \in StoreValues
    /\ (~dbExists => store = EmptyStore)
    /\ calls = <<>>
    /\ openQueue = <<>>
    /\ txs = <<>>
    /\ initStore = store
    /\ lastWrite = store

NewTransaction(c, op, files) ==
    CASE op = "save" -> saveTransaction(c, files)
      [] op = "get" -> getTransaction(c)
      [] op = "clear" -> clearTransaction(c)

\* A call of saveGuidelinesToDB / getGuidelinesFromDB / clearGuidelinesFromDB:
\* await initDB(), then open the transaction.  With the handle present
\* initDB resolves at once and the continuation runs before any other task;
\* otherwise the call issues its own indexedDB.open request.
NewCall(op, files, hasDb, quiet, last, exists) ==
    [op |-> op, files |-> files, pc |-> IF hasDb THEN "tx" ELSE "open",
     result |-> <<>>, quiet |-> quiet, expect |-> last,
     fresh |-> ~exists, after |-> EmptyStore]

DBCall(op, files) ==
    LET c == Len(calls) + 1
        rec == NewCall(op, files, db, ~WriteInFlight, lastWrite, dbExists)
        disturbed == IF IsWrite(rec)
                     THEN [i \in 1..Len(calls) |->
                             IF InFlight(calls[i])
                             THEN [calls[i] EXCEPT !.quiet = FALSE]
                             ELSE calls[i]]
                     ELSE calls
    IN  /\ calls' = Append(disturbed, rec)
        /\ IF db
           THEN /\ txs' = Append(txs, NewTransaction(c, op, files))
                /\ UNCHANGED openQueue
           ELSE /\ openQueue' = Append(openQueue, c)
                /\ UNCHANGED txs
        /\ UNCHANGED <<db, dbExists, store, initStore, lastWrite>>

CallSave == Len(calls) < MaxCalls /\ \E files \in FileLists : DBCall("save", files)
CallGet == Len(calls) < MaxCalls /\ DBCall("get", <<>>)
CallClear == Len(calls) < MaxCalls /\ DBCall("clear", <<>>)

\* request.onsuccess of the oldest indexedDB.open request (after
\* onupgradeneeded created the object store when the database is new):
\* the handle is kept and the waiting call opens its transaction.
OpenSuccess ==
    /\ openQueue # <<>>
    /\ LET c == Head(openQueue)
       IN  /\ txs' = Append(txs, NewTransaction(c, calls[c].op, calls[c].files))
           /\ calls' = [calls EXCEPT ![c].pc = "tx"]
    /\ openQueue' = Tail(openQueue)
    /\ db' = TRUE
    /\ dbExists' = TRUE
    /\ UNCHANGED <<store, initStore, lastWrite>>

\* The engine runs a transaction once no transaction created before it
\* with a conflicting mode on the same store is still live.
Conflict(t1, t2) == t1.mode = "readwrite" \/ t2.mode = "readwrite"

CanRun(i) ==
    /\ ~txs[i].done
    /\ \A j \in 1..(i - 1) : txs[j].done \/ ~Conflict(txs[j], txs[i])

\* The promise of call c settles; after = the store contents at that moment.
Resolve(cs, c, s) == [cs EXCEPT ![c].pc = "resolved", ![c].after = s]

\* The engine executes the next request of a running transaction and
\* fires its success event.
ExecRequest(i) ==
    /\ CanRun(i)
    /\ txs[i].reqs # <<>>
    /\ LET req == Head(txs[i].reqs)
           c == txs[i].call
       IN  CASE req.op = "saveClear" ->
                  /\ store' = StoreClear(store)
                  /\ txs' = ClearRequestOnSuccess(txs, i)
                  /\ UNCHANGED <<calls, lastWrite>>
             [] req.op = "put" ->
                  /\ store' = StorePut(store, req.file)
                  /\ txs' = [txs EXCEPT ![i].reqs = Tail(@)]
                  /\ UNCHANGED <<calls, lastWrite>>
             [] req.op = "clear" ->
                  /\ store' = StoreClear(store)
                  /\ txs' = [txs EXCEPT ![i].reqs = Tail(@)]
                  /\ calls' = Resolve(calls, c, store')
                  /\ lastWrite' = Target(calls[c])
             [] req.op = "getAll" ->
                  /\ calls' = [Resolve(calls, c, store) EXCEPT ![c].result = StoreGetAll(store)]
                  /\ txs' = [txs EXCEPT ![i].reqs = Tail(@)]
                  /\ UNCHANGED <<store, lastWrite>>
    /\ UNCHANGED <<db, dbExists, openQueue, initStore>>

\* A running transaction with no request left commits; transaction.oncomplete
\* of saveGuidelinesToDB resolves the save.
Commit(i) ==
    /\ CanRun(i)
    /\ txs[i].reqs = <<>>
    /\ txs' = [txs EXCEPT ![i].done = TRUE]
    /\ LET c == txs[i].call
       IN  IF calls[c].op = "save" /\ InFlight(calls[c])
           THEN /\ calls' = Resolve(calls, c, store)
                /\ lastWrite' = Target(calls[c])
           ELSE UNCHANGED <<calls, lastWrite>>
    /\ UNCHANGED <<db, dbExists, store, openQueue, initStore>>

\* ------------------------------------------------------------------------
\* utils/db.ts when the engine fails
\* ------------------------------------------------------------------------
\* The engine may fail an open request, fail a request of a running
\* transaction (an error event at the request that bubbles to the
\* transaction, which then aborts), or fail to write the changes of a
\* transaction when it commits (the transaction aborts and only an abort
\* event fires at it).  An aborted transaction is rolled back.
VARIABLES
    undo,      \* the running write transaction and the store as it found it
    aborted,   \* history: the transactions that were aborted
    began      \* history: per call, the store when its first request ran

faultVars == <<undo, aborted, began>>

NoUndo == [tx |-> 0, store |-> EmptyStore]

FaultInit ==
    /\ undo = NoUndo
    /\ aborted = {}
    /\ began = <<>>

\* The promise of call c rejects; after = the store contents at that moment.
Reject(cs, c, s) == [cs EXCEPT ![c].pc = "rejected", ![c].after = s]

\* The store once transaction i is rolled back.
Rollback(i) == IF undo.tx = i THEN undo.store ELSE store

\* The snapshots with one entry per call made so far (none yet: empty).
BeganNow ==
    [k \in 1..Len(calls) |-> IF k <= Len(began) THEN began[k] ELSE EmptyStore]

\* ExecRequest with the bookkeeping of the engine: the first request of a
\* transaction takes the snapshot that a rollback restores.
ExecRequestLogged(i) ==
    /\ ExecRequest(i)
    /\ undo' = IF undo.tx = i THEN undo ELSE [tx |-> i, store |-> store]
    /\ began' = IF Head(txs[i].reqs).op \in {"saveClear", "clear", "getAll"}
                THEN [BeganNow EXCEPT ![txs[i].call] = store]
                ELSE began
    /\ UNCHANGED aborted

\* request.onerror of indexedDB.open (db.ts:16-19): initDB rejects and the
\* awaiting call rejects with it; the handle stays unset.
OpenError ==
    /\ openQueue # <<>>
    /\ calls' = Reject(calls, Head(openQueue), store)
    /\ openQueue' = Tail(openQueue)
    /\ UNCHANGED <<db, dbExists, store, txs, initStore, lastWrite, faultVars>>

\* The handlers that an error event of a request reaches reject the call:
\* clearRequest.onerror and transaction.onerror of saveGuidelinesToDB
\* (db.ts:44-46, 66-68; a put has no handler of its own, its event bubbles
\* to the transaction), request.onerror of the other two (db.ts:82-84,
\* 98-100).
RequestOnError(cs, c, s) == IF InFlight(cs[c]) THEN Reject(cs, c, s) ELSE cs

\* The engine fails the next request of a running transaction: the error
\* event fires, nothing calls preventDefault, the transaction aborts.
RequestError(i) ==
    /\ CanRun(i)
    /\ txs[i].reqs # <<>>
    /\ store' = Rollback(i)
    /\ calls' = RequestOnError(calls, txs[i].call, store')
    /\ txs' = [txs EXCEPT ![i].reqs = <<>>, ![i].done = TRUE]
    /\ aborted' = aborted \cup {i}
    /\ undo' = NoUndo
    /\ began' = IF undo.tx = i THEN began
                ELSE [BeganNow EXCEPT ![txs[i].call] = store]
    /\ UNCHANGED <<db, dbExists, openQueue, initStore, lastWrite>>

\* transaction.onabort: no function of db.ts sets it.
TransactionOnAbort(cs, c, s) == cs

\* The engine cannot write the changes of a write transaction whose
\* requests all succeeded (quota, I/O): the transaction aborts with an
\* abort event and no error event.
CommitError(i) ==
    /\ CanRun(i)
    /\ txs[i].reqs = <<>>
    /\ txs[i].mode = "readwrite"
    /\ store' = Rollback(i)
    /\ calls' = TransactionOnAbort(calls, txs[i].call, store')
    /\ txs' = [txs EXCEPT ![i].done = TRUE]
    /\ aborted' = aborted \cup {i}
    /\ undo' = NoUndo
    /\ UNCHANGED <<db, dbExists, openQueue, initStore, lastWrite, began>>


\* ------------------------------------------------------------------------
\* services/geminiService.ts: generateReport
\* ------------------------------------------------------------------------
ReportFields == {"basicInfo", "evaluationItems", "crossCheckResults", "aiSummary"}

\* A top-level property of the parsed object: missing, null, or a value.
FieldValues == {"absent", "null", "value"}
JsonObjects == [ReportFields -> FieldValues]

\* A response body: its JSON form, "padded" when surrounded by whitespace.
\* The forms are: no characters, text that is not JSON, the JSON literal
\* null, a JSON array, a JSON object.
BodyForms == {"empty", "malformed", "null", "array"}
ResponseTexts ==
    [form : BodyForms, padded : BOOLEAN, fields : {[f \in ReportFields |-> "absent"]}]
        \cup [form : {"object"}, padded : BOOLEAN, fields : JsonObjects]

\* What awaiting ai.models.generateContent yields: a rejection, a response
\* whose text is undefined, or a response with a text.
Responses ==
    {[kind |-> "reject"], [kind |-> "undefined"]}
        \cup {[kind |-> "text", text |-> t] : t \in ResponseTexts}

NoReport == [form |-> "none"]

\* String.prototype.trim()
StringTrim(t) == [t EXCEPT !.padded = FALSE]

\* JSON.parse: throws a SyntaxError on the empty string and on malformed
\* text, and yields the value otherwise.
JSONparse(t) ==
    IF t.form \in {"empty", "malformed"}
    THEN [ok |-> FALSE, value |-> NoReport]
    ELSE [ok |-> TRUE, value |-> [form |-> t.form, fields |-> t.fields]]

\* Property access v[f], and JavaScript truthiness of the outcome.
Truthy(v, f) == v.form = "object" /\ v.fields[f] = "value"

\* !reportData.basicInfo || !reportData.evaluationItems
MissingRequired(v) == ~Truthy(v, "basicInfo") \/ ~Truthy(v, "evaluationItems")

NewRun ==
    [pc |-> "awaiting", resp |-> [kind |-> "none"], trace |-> <<>>,
     requests |-> 0, thrown |-> 0, error |-> "", reportData |-> NoReport,
     result |-> NoReport]

\* onProgress(p, message) as seen by the run: the percentages it has passed.
onProgress(r, p) == [r EXCEPT !.trace = Append(@, p)]

\* The synchronous start of generateReport: onProgress(85), the prompt is
\* built and the one generateContent request is issued.
GenStart == [onProgress(NewRun, 85) EXCEPT !.requests = @ + 1]

\* A catch block that issues the request once more before giving up.
CatchHandlerRetry(r, cause) ==
    IF r.requests < 2
    THEN [r EXCEPT !.pc = "awaiting", !.requests = @ + 1]
    ELSE [r EXCEPT !.pc = "threw", !.thrown = @ + 1, !.error = cause]

\* catch (error) { throw new Error(`AI ...: ${errorMessage}`) }
CatchHandler(r, cause) ==
    [r EXCEPT !.pc = "threw", !.thrown = @ + 1, !.error = cause]

\* A try body that reports 100 before it validates the parsed object.
AfterParseEarlyDone(r, v) ==
    IF v.form = "null"
    THEN CatchHandler(r, "TypeError")
    ELSE IF MissingRequired(v)
         THEN CatchHandler(onProgress(r, 100), "missing required fields")
         ELSE [onProgress(r, 100) EXCEPT !.pc = "sleeping", !.reportData = v]

\* The try body once JSON.parse has returned v: reading a property of null
\* throws, missing fields throw, otherwise onProgress(100) and the sleep.
AfterParse(r, v) ==
    IF v.form = "null"
    THEN CatchHandler(r, "TypeError")
    ELSE IF MissingRequired(v)
         THEN CatchHandler(r, "missing required fields")
         ELSE [onProgress(r, 100) EXCEPT !.pc = "sleeping", !.reportData = v]

\* The continuation of the awaited generateContent call.
AfterResponse(r0, resp) ==
    LET r == [r0 EXCEPT !.resp = resp]
    IN  IF resp.kind = "reject"
        THEN CatchHandler(r, "transport")
        ELSE LET r1 == onProgress(r, 95)
             IN  IF resp.kind = "undefined"
                 THEN CatchHandler(r1, "TypeError")
                 ELSE LET parsed == JSONparse(StringTrim(resp.text))
                      IN  IF ~parsed.ok
                          THEN CatchHandler(r1, "SyntaxError")
                          ELSE AfterParse(r1, parsed.value)

\* await sleep(500) is over: return reportData.
AfterSleep(r) == [r EXCEPT !.pc = "returned", !.result = r.reportData]

VARIABLES runs   \* the invocations of generateReport made so far

genVars == <<runs>>

GenInit == runs = <<>>

\* A caller invokes generateReport with a callback that records progress.
GenCall ==
    /\ Len(runs) < MaxRuns
    /\ runs' = Append(runs, GenStart)

\* The generateContent call of run i settles with resp.
GenResponse(i, resp) ==
    /\ runs[i].pc = "awaiting"
    /\ runs' = [runs EXCEPT ![i] = AfterResponse(runs[i], resp)]

GenSleepDone(i) ==
    /\ runs[i].pc = "sleeping"
    /\ runs' = [runs EXCEPT ![i] = AfterSleep(runs[i])]

\* ------------------------------------------------------------------------
\* services/geminiService.ts and its other versions: the chat session
\* ------------------------------------------------------------------------
\* The versions of the service module that differ in askQuestion.
ChatServices == {"geminiService.ts", "part_005", "part_008"}

\* let chat: Chat | null = null
NoChat == [started |-> FALSE]

\* ai.chats.create with the report as system instruction.
NewChat(report) == [started |-> TRUE, seed |-> report]

Questions == {"q1", "q2"}

\* Reports a chat is started with.
SeedReports ==
    {[form |-> "object", fields |-> [f \in ReportFields |-> "value"]],
     [form |-> "object",
      fields |-> [f \in ReportFields |-> IF f = "aiSummary" THEN "null" ELSE "value"]]}

\* What awaiting chat.sendMessage yields: a response with a text, or a
\* rejection with an Error carrying a message or with another value.
SendOutcomes ==
    {[kind |-> "text", text |-> "answer"],
     [kind |-> "error", isError |-> TRUE, message |-> "quota exceeded"],
     [kind |-> "error", isError |-> TRUE, message |-> "network"],
     [kind |-> "error", isError |-> FALSE, message |-> ""]}

\* The string (or the exception) askQuestion produces when chat is unset.
NotStarted(svc) ==
    IF svc = "geminiService.ts"
    THEN [pc |-> "returned", value |-> <<"chat session not started">>]
    ELSE [pc |-> "threw", value |-> <<"Chat is not initialized. Call startChat first.">>]

\* The string the catch block of askQuestion returns.
Apology(svc, err) ==
    CASE svc = "geminiService.ts" -> <<"apology">>
      [] svc = "part_005" -> <<"apology">>
      [] svc = "part_008" ->
            IF err.isError THEN <<"apology", err.message>> ELSE <<"apology, unknown error">>

\* A startChat that keeps a session that is already open.
startChatKeep(c, reportData) == IF c.started THEN c ELSE NewChat(reportData)

\* startChat(reportData): a new session replaces the one held in c.
startChat(c, reportData) == NewChat(reportData)

VARIABLES
    service,   \* the version of the service module in the bundle
    chat,      \* the module-level session
    asks,      \* every call of askQuestion made so far
    started    \* history: the reports startChat was called with, in order

chatVars == <<service, chat, asks, started>>

ChatInit ==
    /\ service \in ChatServices
    /\ chat = NoChat
    /\ asks = <<>>
    /\ started = <<>>

\* A caller invokes startChat(reportData).
StartChatCall(reportData) ==
    /\ chat' = startChat(chat, reportData)
    /\ started' = Append(started, reportData)
    /\ UNCHANGED <<service, asks>>

\* askQuestion(q) with chat unset: nothing is sent.
AskNoSession(svc, q, seen) ==
    [question |-> q, session |-> NoChat, seen |-> seen, sent |-> 0,
     outcome |-> "none", pc |-> NotStarted(svc).pc, value |-> NotStarted(svc).value]

\* askQuestion(q) up to its await: chat.sendMessage is called on the
\* session held at this moment.  seen = the number of startChat calls made
\* before this call.
askQuestion(c, svc, q, seen) ==
    IF ~c.started
    THEN AskNoSession(svc, q, seen)
    ELSE [question |-> q, session |-> c, seen |-> seen, sent |-> 1,
          outcome |-> "none", pc |-> "sending", value |-> <<>>]

\* A caller invokes askQuestion(q).
AskCall(q) ==
    /\ asks' = Append(asks, askQuestion(chat, service, q, Len(started)))
    /\ UNCHANGED <<service, chat, started>>

\* The awaited send of ask a settles with out: the text of the response
\* is returned, an error is answered by the catch block.
AfterSend(svc, a, out) ==
    IF out.kind = "text"
    THEN [a EXCEPT !.outcome = "text", !.pc = "returned", !.value = <<out.text>>]
    ELSE [a EXCEPT !.outcome = "error", !.pc = "returned", !.value = Apology(svc, out)]

SendSettles(i, out) ==
    /\ asks[i].pc = "sending"
    /\ asks' = [asks EXCEPT ![i] = AfterSend(service, asks[i], out)]
    /\ UNCHANGED <<service, chat, started>>

\* ------------------------------------------------------------------------
\* utils/fileReader (part_004): readFileContent
\* ------------------------------------------------------------------------
PdfType == "application/pdf"
TextType == "text/plain"
DocxType == "application/vnd.openxmlformats-officedocument.wordprocessingml.document"
XlsxType == "application/vnd.openxmlformats-officedocument.spreadsheetml.sheet"

\* File.type: a supported type, the empty string when the browser knows
\* none, or another type.
MediaTypes == {PdfType, TextType, DocxType, XlsxType, "", "application/x-hwp"}

\* File.name as a sequence of pieces of text; "." is the dot.
Dot == "."
NameTokens == {"a", "pdf", "PDF", "txt", "docx", "xlsx", "hwp", Dot}
FileNameValues == UNION {[1..n -> NameTokens] : n \in 0..MaxNameLen}

Files == [type : MediaTypes, name : FileNameValues]

\* String.prototype.split('.'): the pieces between the dots, at least one.
RECURSIVE SplitDots(_, _, _)
SplitDots(name, pieces, cur) ==
    IF name = <<>> THEN Append(pieces, cur)
    ELSE IF Head(name) = Dot
         THEN SplitDots(Tail(name), Append(pieces, cur), <<>>)
         ELSE SplitDots(Tail(name), pieces, Append(cur, Head(name)))

\* String.prototype.toLowerCase()
toLowerCase(piece) ==
    [k \in 1..Len(piece) |-> IF piece[k] = "PDF" THEN "pdf" ELSE piece[k]]

\* file.name.split('.').pop()?.toLowerCase()
extension(file) ==
    LET pieces == SplitDots(file.name, <<>>, <<>>)
    IN  toLowerCase(pieces[Len(pieces)])

\* The chain of tests of readFileContent: the reader it hands the file to,
\* "none" when it answers with the placeholder itself.
readFileContent(file) ==
    IF file.type = PdfType \/ extension(file) = <<"pdf">> THEN "readPdfFile"
    ELSE IF file.type = TextType \/ extension(file) = <<"txt">> THEN "readTextFile"
    ELSE IF file.type = DocxType \/ extension(file) = <<"docx">> THEN "readDocxFile"
    ELSE IF file.type = XlsxType \/ extension(file) = <<"xlsx">> THEN "readXlsxFile"
    ELSE "none"

\* `[파일 형식 분석 불가: ${file.name}] ...`
Placeholder(file) == [kind |-> "placeholder", name |-> file.name]

VARIABLES
    file,       \* the File passed to readFileContent
    decoder,    \* the reader that was invoked, "none" if none was
    readPc,     \* "idle", "start", "decoding", "resolved", "rejected"
    readResult  \* what the promise resolved to

readVars == <<file, decoder, readPc, readResult>>

NoResult == [kind |-> "none"]

ReadInit ==
    /\ file \in Files
    /\ decoder = "none"
    /\ readPc = "start"
    /\ readResult = NoResult

\* A caller invokes readFileContent(file).
ReadFileContentCall ==
    /\ readPc = "start"
    /\ decoder' = readFileContent(file)
    /\ IF decoder' = "none"
       THEN readPc' = "resolved" /\ readResult' = Placeholder(file)
       ELSE readPc' = "decoding" /\ UNCHANGED readResult
    /\ UNCHANGED file

\* The reader finishes: it yields the text of the file or it fails.
DecoderSettles(ok) ==
    /\ readPc = "decoding"
    /\ IF ok
       THEN readPc' = "resolved" /\ readResult' = [kind |-> "text", by |-> decoder]
       ELSE readPc' = "rejected" /\ UNCHANGED readResult
    /\ UNCHANGED <<file, decoder>>

\* ------------------------------------------------------------------------
\* App.tsx (first version) with GuidelineUpload, FileUpload and ReportView
\* ------------------------------------------------------------------------
NoError == ""

\* setError("파일을 읽는 중 오류가 발생했습니다.")
ReadErrorMessage == "error while reading the files"

\* The message generateReport passes along with each percentage.
ProgressMessage(p) ==
    CASE p = 85 -> "generating report"
      [] p = 95 -> "parsing response"
      [] p = 100 -> "report done"
      [] OTHER -> ""

\* The values a step of the run appended to its progress trace.
Reported(before, after) == SubSeq(after.trace, Len(before.trace) + 1, Len(after.trace))

Last(q) == q[Len(q)]

RemoveAt(q, k) == SubSeq(q, 1, k - 1) \o SubSeq(q, k + 1, Len(q))

\* A dropped File: its name and what readFileContent yields for it, a
\* content or a rejection.
Unreadable == "!"
ReadFails(batch) == \E k \in 1..Len(batch) : batch[k].content = Unreadable

\* The batches of files a user drops on an upload area.
UploadBatches ==
    {<<[name |-> "g1", content |-> "x"]>>,
     <<[name |-> "g2", content |-> "x"]>>,
     <<[name |-> "g1", content |-> "x"], [name |-> "g1", content |-> "y"]>>,
     <<[name |-> "g2", content |-> Unreadable]>>}

FileNames(files) == {files[k].name : k \in 1..Len(files)}

\* The responses of the generation request an analysis is run against.
RunOutcomes ==
    {[kind |-> "reject"],
     [kind |-> "text",
      text |-> [form |-> "object", padded |-> FALSE,
                fields |-> [f \in ReportFields |-> "value"]]]}

VARIABLES
    appState,            \* AppState: "IDLE", "PROCESSING", "REPORT", "ERROR"
    guidelinesSubmitted, \* FileUpload instead of GuidelineUpload when Idle
    guidelineFiles,      \* the guideline collection
    reportData,          \* the report, NoReport for null
    error,               \* the error message, NoError for null
    progress,            \* percentage handed to ProcessingView
    progressMessage,     \* message handed to ProcessingView
    adds,                \* batches handleAddGuidelineFiles is still reading
    shown,               \* history: every value progress was set to since the run began
    errorSince           \* history: number of store calls made when Error was entered

appVars ==
    <<appState, guidelinesSubmitted, guidelineFiles, reportData, error,
      progress, progressMessage, adds, shown, errorSince>>

VARIABLES
    evaluationFiles,     \* state of the mounted FileUpload
    uploadError,         \* its error message, NoError for null
    drops                \* batches its onDrop is still reading

uploadVars == <<evaluationFiles, uploadError, drops>>

VARIABLES
    resetDone,           \* history: a full reset completed and the user has
                         \* started nothing since
    dropped              \* history: the names dropped on GuidelineUpload, in
                         \* order, kept by the specification of the uploads

histVars == <<resetDone, dropped>>

VARIABLES
    messages,            \* state of the mounted ReportQnA: the message list,
    isLoading,           \* its loading flag,
    pending              \* and the asks whose reply it is waiting for

qnaVars == <<messages, isLoading, pending>>

AppInit ==
    /\ appState = "IDLE"
    /\ guidelinesSubmitted = FALSE
    /\ guidelineFiles = <<>>
    /\ reportData = NoReport
    /\ error = NoError
    /\ progress = 0
    /\ progressMessage = ""
    /\ adds = <<>>
    /\ shown = <<>>
    /\ errorSince = 0

UploadInit ==
    /\ evaluationFiles = <<>>
    /\ uploadError = NoError
    /\ drops = <<>>

HistInit ==
    /\ resetDone = FALSE
    /\ dropped = <<>>

QnAInit ==
    /\ messages = <<>>
    /\ isLoading = FALSE
    /\ pending = {}

\* The message the effect of ReportQnA starts the list with.
Greeting == [role |-> "model", text |-> <<"greeting">>]

\* The user starts an operation.
UserActs == resetDone' = FALSE

NamesOf(files) == [k \in 1..Len(files) |-> files[k].name]

\* renderContent: which component the Idle state shows.
GuidelineUploadShown == appState = "IDLE" /\ ~guidelinesSubmitted
FileUploadShown == appState = "IDLE" /\ guidelinesSubmitted

\* renderContent: ReportView, and ReportQnA inside it, is shown in the
\* Report state when there is a report.
ReportShown == appState = "REPORT" /\ reportData # NoReport

\* ReportQnA keeps its state while it stays mounted; the replies an
\* unmounted instance was waiting for change nothing any more.
ReportQnAKept ==
    IF ReportShown /\ appState' = "REPORT" /\ reportData' # NoReport
    THEN UNCHANGED qnaVars
    ELSE messages' = <<>> /\ isLoading' = FALSE /\ pending' = {}

\* FileUpload keeps its state while it stays mounted; an instance that is
\* unmounted is gone together with the reads it was waiting for.
FileUploadKept ==
    IF FileUploadShown /\ appState' = "IDLE" /\ guidelinesSubmitted'
    THEN UNCHANGED uploadVars
    ELSE evaluationFiles' = <<>> /\ uploadError' = NoError /\ drops' = <<>>

\* loadGuidelines once getGuidelinesFromDB has resolved with storedFiles.
loadGuidelinesDone(storedFiles) ==
    /\ IF Len(storedFiles) > 0
       THEN /\ guidelineFiles' = storedFiles
            /\ guidelinesSubmitted' = TRUE
       ELSE UNCHANGED <<guidelineFiles, guidelinesSubmitted>>
    /\ UNCHANGED <<appState, reportData, error, progress, progressMessage,
                   adds, shown, errorSince>>

\* GuidelineUpload.onDrop: handleAddGuidelineFiles starts reading the files.
AddGuidelineFiles(batch) ==
    /\ GuidelineUploadShown
    /\ adds' = Append(adds, batch)
    /\ UserActs
    /\ UNCHANGED qnaVars
    /\ UNCHANGED <<appState, guidelinesSubmitted, guidelineFiles, reportData,
                   error, progress, progressMessage, shown, errorSince>>
    /\ UNCHANGED <<dbVars, genVars, chatVars, uploadVars>>

\* newFiles.filter(f => !existingNames.has(f.name))
UniqueNewFiles(prevFiles, newFiles) ==
    SelectSeq(newFiles, LAMBDA f : f.name \notin FileNames(prevFiles))

\* The reads of batch k are over.  All read: the updater appends the files
\* whose name is new and saves the collection.  One failed: setError.
AddGuidelineFilesRead(k) ==
    /\ adds' = RemoveAt(adds, k)
    /\ IF ReadFails(adds[k])
       THEN /\ error' = ReadErrorMessage
            /\ UNCHANGED guidelineFiles
            /\ UNCHANGED dbVars
       ELSE LET updatedFiles ==
                    guidelineFiles \o UniqueNewFiles(guidelineFiles, adds[k])
            IN  /\ guidelineFiles' = updatedFiles
                /\ DBCall("save", updatedFiles)
                /\ UNCHANGED error
    /\ UNCHANGED <<appState, guidelinesSubmitted, reportData, progress,
                   progressMessage, shown, errorSince>>
    /\ UNCHANGED <<genVars, chatVars, uploadVars, histVars, qnaVars>>

\* handleRemoveGuidelineFile(fileName), offered for every listed file.
RemoveGuidelineFile(fileName) ==
    /\ GuidelineUploadShown
    /\ fileName \in FileNames(guidelineFiles)
    /\ LET keep(f) == f.name # fileName
           updatedFiles == SelectSeq(guidelineFiles, keep)
       IN  /\ guidelineFiles' = updatedFiles
           /\ DBCall("save", updatedFiles)
    /\ UserActs
    /\ UNCHANGED qnaVars
    /\ UNCHANGED <<appState, guidelinesSubmitted, reportData, error, progress,
                   progressMessage, adds, shown, errorSince, dropped>>
    /\ UNCHANGED <<genVars, chatVars, uploadVars>>

\* GuidelineUpload.handleNext and handleNextStep.
NextStep ==
    /\ GuidelineUploadShown
    /\ Len(guidelineFiles) > 0
    /\ guidelinesSubmitted' = TRUE
    /\ UserActs
    /\ UNCHANGED qnaVars
    /\ UNCHANGED <<appState, guidelineFiles, reportData, error, progress,
                   progressMessage, adds, shown, errorSince, dropped>>
    /\ UNCHANGED <<dbVars, genVars, chatVars, uploadVars>>

\* handleChangeGuidelines, offered by FileUpload.
ChangeGuidelines ==
    /\ FileUploadShown
    /\ guidelinesSubmitted' = FALSE
    /\ UserActs
    /\ UNCHANGED qnaVars
    /\ UNCHANGED <<appState, guidelineFiles, reportData, error, progress,
                   progressMessage, adds, shown, errorSince, dropped>>
    /\ FileUploadKept
    /\ UNCHANGED <<dbVars, genVars, chatVars>>

\* FileUpload.onDrop with no file rejected by the drop zone: the error is
\* cleared and the reads of the dropped files start.
EvaluationDrop(batch) ==
    /\ FileUploadShown
    /\ drops' = Append(drops, batch)
    /\ uploadError' = NoError
    /\ UserActs
    /\ UNCHANGED qnaVars
    /\ UNCHANGED <<evaluationFiles, dropped>>
    /\ UNCHANGED <<appVars, dbVars, genVars, chatVars>>

\* The reads of dropped batch k are over: the files are appended, or the
\* component shows its own error.
EvaluationDropRead(k) ==
    /\ drops' = RemoveAt(drops, k)
    /\ IF ReadFails(drops[k])
       THEN uploadError' = ReadErrorMessage /\ UNCHANGED evaluationFiles
       ELSE evaluationFiles' = evaluationFiles \o drops[k] /\ UNCHANGED uploadError
    /\ UNCHANGED <<appVars, dbVars, genVars, chatVars, histVars, qnaVars>>

\* FileUpload.handleRemoveFile(fileName)
EvaluationRemove(fileName) ==
    /\ FileUploadShown
    /\ fileName \in FileNames(evaluationFiles)
    /\ LET keep(f) == f.name # fileName
       IN  evaluationFiles' = SelectSeq(evaluationFiles, keep)
    /\ UserActs
    /\ UNCHANGED qnaVars
    /\ UNCHANGED <<drops, uploadError, dropped>>
    /\ UNCHANGED <<appVars, dbVars, genVars, chatVars>>

\* FileUpload.handleSubmit and handleAnalysisSubmit up to its await: the
\* state is reset for the run and generateReport starts, calling
\* onProgress(85) before its own await.
AnalysisSubmit ==
    /\ FileUploadShown
    /\ Len(evaluationFiles) > 0
    /\ appState' = "PROCESSING"
    /\ error' = NoError
    /\ reportData' = NoReport
    /\ runs' = Append(runs, GenStart)
    /\ progress' = Last(GenStart.trace)
    /\ progressMessage' = ProgressMessage(Last(GenStart.trace))
    /\ shown' = <<0>> \o GenStart.trace
    /\ UserActs
    /\ UNCHANGED qnaVars
    /\ UNCHANGED <<guidelinesSubmitted, guidelineFiles, adds, errorSince, dropped>>
    /\ FileUploadKept
    /\ UNCHANGED <<dbVars, chatVars>>

\* The generateContent call of run i settles: generateReport continues and
\* reports through onProgress = setProgress/setProgressMessage; when it
\* throws, the catch of handleAnalysisSubmit sets the error and the state.
RunResponse(i, resp) ==
    /\ runs[i].pc = "awaiting"
    /\ LET r == AfterResponse(runs[i], resp)
           new == Reported(runs[i], r)
       IN  /\ runs' = [runs EXCEPT ![i] = r]
           /\ shown' = shown \o new
           /\ IF new = <<>>
              THEN UNCHANGED <<progress, progressMessage>>
              ELSE /\ progress' = Last(new)
                   /\ progressMessage' = ProgressMessage(Last(new))
           /\ IF r.pc = "threw"
              THEN /\ error' = r.error
                   /\ appState' = "ERROR"
                   /\ errorSince' = IF appState = "ERROR" THEN errorSince ELSE Len(calls)
              ELSE UNCHANGED <<error, appState, errorSince>>
    /\ UNCHANGED <<reportData, guidelinesSubmitted, guidelineFiles, adds>>
    /\ FileUploadKept
    /\ ReportQnAKept
    /\ UNCHANGED <<dbVars, chatVars, histVars>>

\* The sleep of run i is over: generateReport returns and
\* handleAnalysisSubmit stores the report; ReportView is rendered with it
\* and the effect of ReportQnA starts the chat and the message list, in a
\* new instance or, for a new report, in the one that is mounted.
RunSleepDone(i) ==
    /\ runs[i].pc = "sleeping"
    /\ LET r == AfterSleep(runs[i])
       IN  /\ runs' = [runs EXCEPT ![i] = r]
           /\ reportData' = r.result
           /\ StartChatCall(r.result)
    /\ appState' = "REPORT"
    /\ messages' = <<Greeting>>
    /\ IF ReportShown
       THEN UNCHANGED <<isLoading, pending>>
       ELSE isLoading' = FALSE /\ pending' = {}
    /\ UNCHANGED <<error, progress, progressMessage, shown, guidelinesSubmitted,
                   guidelineFiles, adds, errorSince>>
    /\ FileUploadKept
    /\ UNCHANGED <<dbVars, histVars>>

\* A click on the button that calls handleFullReset, offered by the Error
\* view and by the Report view: clearGuidelinesFromDB is called.
FullResetClick ==
    /\ appState \in {"ERROR", "REPORT"}
    /\ DBCall("clear", <<>>)
    /\ UserActs
    /\ UNCHANGED qnaVars
    /\ UNCHANGED <<appVars, uploadVars, genVars, chatVars, dropped>>

\* handleFullReset once its clearGuidelinesFromDB has resolved.
handleFullResetDone ==
    /\ guidelineFiles' = <<>>
    /\ reportData' = NoReport
    /\ error' = NoError
    /\ progress' = 0
    /\ progressMessage' = ""
    /\ guidelinesSubmitted' = FALSE
    /\ appState' = "IDLE"
    /\ UNCHANGED <<adds, shown, errorSince>>

\* A handleSubmit that does not look at isLoading.
CanSubmitAlways(loading) == TRUE

\* ReportQnA.handleSubmit: if (!input.trim() || isLoading) return, with a
\* non-blank input.
CanSubmit(loading) == ~loading

\* A setMessages that puts the new message in front.
PrependMessage(prev, message) == <<message>> \o prev

\* setMessages(prev => [...prev, message])
AppendMessage(prev, message) == Append(prev, message)

\* ReportQnA.handleSubmit(q): the user message is appended, the flag is
\* set and askQuestion is called; handleSubmit goes on when the call
\* settles (at once when askQuestion answers without sending, never when
\* it throws).
QnASubmit(q) ==
    /\ ReportShown
    /\ CanSubmit(isLoading)
    /\ AskCall(q)
    /\ LET n == Len(asks) + 1
           a == asks'[n]
           withUser == AppendMessage(messages, [role |-> "user", text |-> <<q>>])
       IN  CASE a.pc = "sending" ->
                  /\ messages' = withUser
                  /\ isLoading' = TRUE
                  /\ pending' = pending \cup {n}
             [] a.pc = "returned" ->
                  /\ messages' = AppendMessage(withUser, [role |-> "model", text |-> a.value])
                  /\ isLoading' = FALSE
                  /\ UNCHANGED pending
             [] a.pc = "threw" ->
                  /\ messages' = withUser
                  /\ isLoading' = TRUE
                  /\ UNCHANGED pending
    /\ resetDone' = FALSE
    /\ UNCHANGED <<appVars, uploadVars, dbVars, genVars, dropped>>

\* The send of ask i settles: askQuestion returns and the handleSubmit
\* that awaits it, if its ReportQnA is still mounted, appends the reply.
QnAReply(i, out) ==
    /\ SendSettles(i, out)
    /\ IF i \in pending
       THEN /\ messages' = AppendMessage(messages, [role |-> "model", text |-> asks'[i].value])
            /\ isLoading' = FALSE
            /\ pending' = pending \ {i}
       ELSE UNCHANGED qnaVars
    /\ UNCHANGED <<appVars, uploadVars, dbVars, genVars, histVars>>

\* The store engine at work under the App: the promise a request settles
\* continues loadGuidelines or handleFullReset in the same task.
StoreOpenSuccess ==
    /\ OpenSuccess
    /\ UNCHANGED <<appVars, uploadVars, genVars, chatVars, histVars, qnaVars>>

StoreExecRequest(i) ==
    /\ ExecRequest(i)
    /\ LET req == Head(txs[i].reqs)
       IN  CASE req.op = "getAll" ->
                  loadGuidelinesDone(StoreGetAll(store)) /\ UNCHANGED resetDone
             [] req.op = "clear" -> handleFullResetDone /\ resetDone' = TRUE
             [] OTHER -> UNCHANGED <<appVars, resetDone>>
    /\ FileUploadKept
    /\ ReportQnAKept
    /\ UNCHANGED <<genVars, chatVars, dropped>>

StoreCommit(i) ==
    /\ Commit(i)
    /\ UNCHANGED <<appVars, uploadVars, genVars, chatVars, histVars, qnaVars>>

\* ------------------------------------------------------------------------
\* Specifications
\* ------------------------------------------------------------------------
vars == <<chunkVars, dbVars, genVars, chatVars, readVars, appVars, uploadVars, histVars, qnaVars, faultVars>>

ChunkIdle ==
    /\ text = <<>>
    /\ chunks = <<>>
    /\ chunkPc = "idle"

DBIdle ==
    /\ db = FALSE
    /\ dbExists = FALSE
    /\ store = EmptyStore
    /\ calls = <<>>
    /\ openQueue = <<>>
    /\ txs = <<>>
    /\ initStore = EmptyStore
    /\ lastWrite = EmptyStore

ChatIdle ==
    /\ service = "geminiService.ts"
    /\ chat = NoChat
    /\ asks = <<>>
    /\ started = <<>>

ReadIdle ==
    /\ file = [type |-> "", name |-> <<>>]
    /\ decoder = "none"
    /\ readPc = "idle"
    /\ readResult = NoResult

AppIdle == AppInit /\ UploadInit /\ HistInit /\ QnAInit /\ ReadIdle /\ FaultInit

\* readFileContent applied to a file.
SpecReadInit == ReadInit /\ AppInit /\ UploadInit /\ HistInit /\ QnAInit /\ FaultInit /\ ChunkIdle /\ DBIdle /\ GenInit /\ ChatIdle
SpecReadNext ==
    \/ ReadFileContentCall
          /\ UNCHANGED <<chunkVars, dbVars, genVars, chatVars, appVars, uploadVars, histVars, qnaVars, faultVars>>
    \/ \E ok \in BOOLEAN :
          DecoderSettles(ok)
          /\ UNCHANGED <<chunkVars, dbVars, genVars, chatVars, appVars, uploadVars, histVars, qnaVars, faultVars>>
SpecRead == SpecReadInit /\ [][SpecReadNext]_vars

\* chunkText applied to a text.
SpecChunkInit == ChunkInit /\ DBIdle /\ GenInit /\ ChatIdle /\ AppIdle
SpecChunkNext == ChunkCall /\ UNCHANGED <<dbVars, genVars, chatVars, readVars, appVars, uploadVars, histVars, qnaVars, faultVars>>
SpecChunk == SpecChunkInit /\ [][SpecChunkNext]_vars

\* Callers of the guideline store and the IndexedDB engine.
SpecDBInit == DBInit /\ ChunkIdle /\ GenInit /\ ChatIdle /\ AppIdle
SpecDBNext ==
    \/ CallSave /\ UNCHANGED <<chunkVars, genVars, chatVars, readVars, appVars, uploadVars, histVars, qnaVars, faultVars>>
    \/ CallGet /\ UNCHANGED <<chunkVars, genVars, chatVars, readVars, appVars, uploadVars, histVars, qnaVars, faultVars>>
    \/ CallClear /\ UNCHANGED <<chunkVars, genVars, chatVars, readVars, appVars, uploadVars, histVars, qnaVars, faultVars>>
    \/ OpenSuccess /\ UNCHANGED <<chunkVars, genVars, chatVars, readVars, appVars, uploadVars, histVars, qnaVars, faultVars>>
    \/ \E i \in 1..Len(txs) :
          ExecRequest(i) /\ UNCHANGED <<chunkVars, genVars, chatVars, readVars, appVars, uploadVars, histVars, qnaVars, faultVars>>
    \/ \E i \in 1..Len(txs) :
          Commit(i) /\ UNCHANGED <<chunkVars, genVars, chatVars, readVars, appVars, uploadVars, histVars, qnaVars, faultVars>>
SpecDB == SpecDBInit /\ [][SpecDBNext]_vars

\* Callers of the guideline store and an engine that may fail.
SpecDBFaultNext ==
    \/ CallSave /\ UNCHANGED faultVars /\ UNCHANGED <<chunkVars, genVars, chatVars, readVars, appVars, uploadVars, histVars, qnaVars>>
    \/ CallGet /\ UNCHANGED faultVars /\ UNCHANGED <<chunkVars, genVars, chatVars, readVars, appVars, uploadVars, histVars, qnaVars>>
    \/ CallClear /\ UNCHANGED faultVars /\ UNCHANGED <<chunkVars, genVars, chatVars, readVars, appVars, uploadVars, histVars, qnaVars>>
    \/ OpenSuccess /\ UNCHANGED faultVars /\ UNCHANGED <<chunkVars, genVars, chatVars, readVars, appVars, uploadVars, histVars, qnaVars>>
    \/ OpenError /\ UNCHANGED <<chunkVars, genVars, chatVars, readVars, appVars, uploadVars, histVars, qnaVars>>
    \/ \E i \in 1..Len(txs) : ExecRequestLogged(i) /\ UNCHANGED <<chunkVars, genVars, chatVars, readVars, appVars, uploadVars, histVars, qnaVars>>
    \/ \E i \in 1..Len(txs) : Commit(i) /\ UNCHANGED faultVars /\ UNCHANGED <<chunkVars, genVars, chatVars, readVars, appVars, uploadVars, histVars, qnaVars>>
    \/ \E i \in 1..Len(txs) : RequestError(i) /\ UNCHANGED <<chunkVars, genVars, chatVars, readVars, appVars, uploadVars, histVars, qnaVars>>
    \/ \E i \in 1..Len(txs) : CommitError(i) /\ UNCHANGED <<chunkVars, genVars, chatVars, readVars, appVars, uploadVars, histVars, qnaVars>>
SpecDBFault == SpecDBInit /\ [][SpecDBFaultNext]_vars

\* Callers of generateReport.
SpecGenInit == GenInit /\ ChunkIdle /\ DBIdle /\ ChatIdle /\ AppIdle
SpecGenNext ==
    \/ GenCall /\ UNCHANGED <<chunkVars, dbVars, chatVars, readVars, appVars, uploadVars, histVars, qnaVars, faultVars>>
    \/ \E i \in 1..Len(runs), resp \in Responses :
          GenResponse(i, resp) /\ UNCHANGED <<chunkVars, dbVars, chatVars, readVars, appVars, uploadVars, histVars, qnaVars, faultVars>>
    \/ \E i \in 1..Len(runs) :
          GenSleepDone(i) /\ UNCHANGED <<chunkVars, dbVars, chatVars, readVars, appVars, uploadVars, histVars, qnaVars, faultVars>>
SpecGen == SpecGenInit /\ [][SpecGenNext]_vars

\* Callers of startChat and askQuestion, for each version of the service.
SpecChatInit == ChatInit /\ ChunkIdle /\ DBIdle /\ GenInit /\ AppIdle
SpecChatNext ==
    \/ \E r \in SeedReports :
          /\ Len(started) < MaxChats
          /\ StartChatCall(r)
          /\ UNCHANGED <<chunkVars, dbVars, genVars, readVars, appVars, uploadVars, histVars, qnaVars, faultVars>>
    \/ \E q \in Questions :
          /\ Len(asks) < MaxAsks
          /\ AskCall(q)
          /\ UNCHANGED <<chunkVars, dbVars, genVars, readVars, appVars, uploadVars, histVars, qnaVars, faultVars>>
    \/ \E i \in 1..Len(asks), out \in SendOutcomes :
          SendSettles(i, out) /\ UNCHANGED <<chunkVars, dbVars, genVars, readVars, appVars, uploadVars, histVars, qnaVars, faultVars>>
SpecChat == SpecChatInit /\ [][SpecChatNext]_vars

\* The App right after it is mounted: the effect has called
\* getGuidelinesFromDB, whose open request is pending.
AppMounted ==
    /\ db = FALSE
    /\ dbExists \in BOOLEAN
    /\ store \in {EmptyStore, PutAll(EmptyStore, <<[name |-> "g1", content |-> "x"]>>)}
    /\ (~dbExists => store = EmptyStore)
    /\ calls = <<NewCall("get", <<>>, FALSE, TRUE, store, dbExists)>>
    /\ openQueue = <<1>>
    /\ txs = <<>>
    /\ initStore = store
    /\ lastWrite = store

SpecAppInit == AppMounted /\ AppIdle /\ ChatIdle /\ GenInit /\ ChunkIdle

\* May the user start one more operation that calls the store?
StoreBudget == Len(calls) + Len(adds) < MaxAppCalls

\* One analysis from the mounted App: load, evaluation files, run.
SpecRunNext ==
    \/ StoreOpenSuccess /\ UNCHANGED <<chunkVars, readVars, faultVars>>
    \/ \E i \in 1..Len(txs) : StoreExecRequest(i) /\ UNCHANGED <<chunkVars, readVars, faultVars>>
    \/ \E i \in 1..Len(txs) : StoreCommit(i) /\ UNCHANGED <<chunkVars, readVars, faultVars>>
    \/ \E batch \in UploadBatches :
          /\ Len(drops) < MaxPending
          /\ Len(evaluationFiles) + Len(batch) <= MaxFiles
          /\ EvaluationDrop(batch)
          /\ UNCHANGED <<chunkVars, readVars, faultVars>>
    \/ \E k \in 1..Len(drops) : EvaluationDropRead(k) /\ UNCHANGED <<chunkVars, readVars, faultVars>>
    \/ AnalysisSubmit /\ UNCHANGED <<chunkVars, readVars, faultVars>>
    \/ \E i \in 1..Len(runs), resp \in Responses :
          RunResponse(i, resp) /\ UNCHANGED <<chunkVars, readVars, faultVars>>
    \/ \E i \in 1..Len(runs) : RunSleepDone(i) /\ UNCHANGED <<chunkVars, readVars, faultVars>>
SpecRun == SpecAppInit /\ [][SpecRunNext]_vars

\* The whole App under its user, the store engine and the model service.
SpecAppNext ==
    \/ StoreOpenSuccess /\ UNCHANGED <<chunkVars, readVars, faultVars>>
    \/ \E i \in 1..Len(txs) : StoreExecRequest(i) /\ UNCHANGED <<chunkVars, readVars, faultVars>>
    \/ \E i \in 1..Len(txs) : StoreCommit(i) /\ UNCHANGED <<chunkVars, readVars, faultVars>>
    \/ \E batch \in UploadBatches :
          /\ StoreBudget
          /\ Len(adds) < MaxPending
          /\ AddGuidelineFiles(batch)
          /\ UNCHANGED <<chunkVars, readVars, faultVars, dropped>>
    \/ \E k \in 1..Len(adds) : AddGuidelineFilesRead(k) /\ UNCHANGED <<chunkVars, readVars, faultVars>>
    \/ \E fileName \in Names :
          StoreBudget /\ RemoveGuidelineFile(fileName) /\ UNCHANGED <<chunkVars, readVars, faultVars>>
    \/ NextStep /\ UNCHANGED <<chunkVars, readVars, faultVars>>
    \/ ChangeGuidelines /\ UNCHANGED <<chunkVars, readVars, faultVars>>
    \/ \E batch \in UploadBatches :
          /\ Len(drops) < MaxPending
          /\ Len(evaluationFiles) + Len(batch) <= MaxFiles
          /\ EvaluationDrop(batch)
          /\ UNCHANGED <<chunkVars, readVars, faultVars>>
    \/ \E k \in 1..Len(drops) : EvaluationDropRead(k) /\ UNCHANGED <<chunkVars, readVars, faultVars>>
    \/ \E fileName \in Names : EvaluationRemove(fileName) /\ UNCHANGED <<chunkVars, readVars, faultVars>>
    \/ Len(runs) < MaxAnalyses /\ AnalysisSubmit /\ UNCHANGED <<chunkVars, readVars, faultVars>>
    \/ \E i \in 1..Len(runs), resp \in RunOutcomes :
          RunResponse(i, resp) /\ UNCHANGED <<chunkVars, readVars, faultVars>>
    \/ \E i \in 1..Len(runs) : RunSleepDone(i) /\ UNCHANGED <<chunkVars, readVars, faultVars>>
    \/ StoreBudget /\ FullResetClick /\ UNCHANGED <<chunkVars, readVars, faultVars>>
SpecApp == SpecAppInit /\ [][SpecAppNext]_vars

\* One analysis from the mounted App and the chat of ReportView about its
\* report, up to the full reset, for each version of the service.
SpecQnAInit == AppMounted /\ AppIdle /\ ChatInit /\ GenInit /\ ChunkIdle
SpecQnANext ==
    \/ StoreOpenSuccess /\ UNCHANGED <<chunkVars, readVars, faultVars>>
    \/ \E i \in 1..Len(txs) : StoreExecRequest(i) /\ UNCHANGED <<chunkVars, readVars, faultVars>>
    \/ \E i \in 1..Len(txs) : StoreCommit(i) /\ UNCHANGED <<chunkVars, readVars, faultVars>>
    \/ \E batch \in UploadBatches :
          /\ Len(drops) < MaxPending
          /\ evaluationFiles = <<>>
          /\ EvaluationDrop(batch)
          /\ UNCHANGED <<chunkVars, readVars, faultVars>>
    \/ \E k \in 1..Len(drops) : EvaluationDropRead(k) /\ UNCHANGED <<chunkVars, readVars, faultVars>>
    \/ Len(runs) < MaxRuns /\ AnalysisSubmit /\ UNCHANGED <<chunkVars, readVars, faultVars>>
    \/ \E i \in 1..Len(runs), resp \in RunOutcomes :
          RunResponse(i, resp) /\ UNCHANGED <<chunkVars, readVars, faultVars>>
    \/ \E i \in 1..Len(runs) : RunSleepDone(i) /\ UNCHANGED <<chunkVars, readVars, faultVars>>
    \/ \E q \in Questions :
          Len(asks) < MaxAsks /\ QnASubmit(q) /\ UNCHANGED <<chunkVars, readVars, faultVars>>
    \/ \E i \in 1..Len(asks), out \in SendOutcomes :
          QnAReply(i, out) /\ UNCHANGED <<chunkVars, readVars, faultVars>>
    \/ StoreBudget /\ FullResetClick /\ UNCHANGED <<chunkVars, readVars, faultVars>>
SpecQnA == SpecQnAInit /\ [][SpecQnANext]_vars

\* GuidelineUpload under a user who drops a batch while another is still
\* being read; the names are recorded in the order they are dropped.
SpecGuideNext ==
    \/ StoreOpenSuccess /\ UNCHANGED <<chunkVars, readVars, faultVars>>
    \/ \E i \in 1..Len(txs) : StoreExecRequest(i) /\ UNCHANGED <<chunkVars, readVars, faultVars>>
    \/ \E i \in 1..Len(txs) : StoreCommit(i) /\ UNCHANGED <<chunkVars, readVars, faultVars>>
    \/ \E batch \in UploadBatches :
          /\ StoreBudget
          /\ Len(adds) < MaxOverlap
          /\ Len(dropped) + Len(batch) <= MaxDropped
          /\ AddGuidelineFiles(batch)
          /\ dropped' = dropped \o NamesOf(batch)
          /\ UNCHANGED <<chunkVars, readVars, faultVars>>
    \/ \E k \in 1..Len(adds) : AddGuidelineFilesRead(k) /\ UNCHANGED <<chunkVars, readVars, faultVars>>
    \/ \E fileName \in Names :
          StoreBudget /\ RemoveGuidelineFile(fileName) /\ UNCHANGED <<chunkVars, readVars, faultVars>>
SpecGuide == SpecAppInit /\ [][SpecGuideNext]_vars

\* ------------------------------------------------------------------------
\* Claims about chunkText
\* ------------------------------------------------------------------------
\* C1: for every input text, concatenating the chunks returned by chunkText
\* in order reproduces the text exactly (round trip).
C1_RoundTrip == chunkPc = "done" => Concat(chunks) = text

\* C2: every chunk returned by chunkText has length at most MAX_CHUNK_SIZE,
\* also when a paragraph alone is longer than the maximum.
C2_ChunkBound ==
    chunkPc = "done" => \A i \in 1..Len(chunks) : Len(chunks[i]) <= MAX_CHUNK_SIZE

\* The hard split acted: some paragraph alone exceeds the maximum, and it is
\* preceded or followed by another paragraph.
C2_Witness ==
    /\ chunkPc = "done"
    /\ \E i \in 1..Len(Paragraphs(text)) : Len(Paragraphs(text)[i]) > MAX_CHUNK_SIZE
    /\ Len(Paragraphs(text)) > 1
    /\ Len(chunks) > 2

\* C3: chunkText returns the empty sequence for the empty text, and no
\* chunk it returns is the empty string.
C3_NoEmptyChunk ==
    chunkPc = "done" =>
        /\ (text = <<>> => chunks = <<>>)
        /\ \A i \in 1..Len(chunks) : chunks[i] # <<>>

\* A text whose first paragraph alone exceeds the maximum (so the greedy
\* loop closes an empty current chunk) has been chunked.
C3_Witness ==
    /\ chunkPc = "done"
    /\ Paragraphs(text) # <<>>
    /\ Len(Paragraphs(text)[1]) > MAX_CHUNK_SIZE
    /\ chunks # <<>>

\* The text cut at every newline character: the lines, empty ones included.
RECURSIVE LinesOf(_, _, _)
LinesOf(t, lines, cur) ==
    IF t = <<>> THEN Append(lines, cur)
    ELSE IF Head(t) = NL
         THEN LinesOf(Tail(t), Append(lines, cur), <<>>)
         ELSE LinesOf(Tail(t), lines, Append(cur, Head(t)))

NonBlank(u) == \E k \in 1..Len(u) : u[k] \notin Whitespace

\* The units of a text: what lies between its newline runs, without the
\* pieces that are empty or consist of whitespace only.
Units(t) == SelectSeq(LinesOf(t, <<>>, <<>>), NonBlank)

\* C24: chunkText keeps every non-blank unit of the text once and in input
\* order: the chunks concatenate to the concatenation of the units.
C24_UnitsKeptInOrder ==
    chunkPc = "done" => Concat(chunks) = Concat(Units(text))

\* A text with two units and a whitespace-only line between them has been
\* chunked.
C24_Witness ==
    /\ chunkPc = "done"
    /\ Len(Units(text)) >= 2
    /\ \E k \in 1..Len(LinesOf(text, <<>>, <<>>)) :
          LET l == LinesOf(text, <<>>, <<>>)[k] IN l # <<>> /\ ~NonBlank(l)
    /\ chunks # <<>>

\* The chunks the accumulation loop produced for the text, before the pass
\* that splits the long ones.
GreedyOf(t) == IF t = <<>> THEN <<>> ELSE GreedyChunks(Paragraphs(t))

\* The pieces chunks holds for greedy chunk k: they follow the pieces of
\* the greedy chunks before it.
RECURSIVE PiecesBefore(_, _)
PiecesBefore(gs, k) ==
    IF k = 1 THEN 0
    ELSE PiecesBefore(gs, k - 1)
           + (IF Len(gs[k - 1]) > MAX_CHUNK_SIZE
              THEN (Len(gs[k - 1]) + MAX_CHUNK_SIZE - 1) \div MAX_CHUNK_SIZE
              ELSE 1)

PiecesOf(gs, k) ==
    LET from == PiecesBefore(gs, k)
        to == PiecesBefore(gs, k + 1)
    IN  SubSeq(chunks, from + 1, to)

IsUnit(t, g) == \E k \in 1..Len(Units(t)) : Units(t)[k] = g

\* C25: only a greedy chunk longer than MAX_CHUNK_SIZE is split; such a
\* chunk is a single unit; its pieces all have length MAX_CHUNK_SIZE except
\* the last and concatenate to the chunk.  A chunk within the maximum is
\* passed on as it is.
C25_HardSplitExact ==
    chunkPc = "done" =>
        LET gs == GreedyOf(text)
        IN  /\ Len(chunks) = PiecesBefore(gs, Len(gs) + 1)
            /\ \A k \in 1..Len(gs) :
                   LET ps == PiecesOf(gs, k)
                   IN  IF Len(gs[k]) > MAX_CHUNK_SIZE
                       THEN /\ IsUnit(text, gs[k])
                            /\ Concat(ps) = gs[k]
                            /\ \A j \in 1..(Len(ps) - 1) : Len(ps[j]) = MAX_CHUNK_SIZE
                            /\ Len(ps[Len(ps)]) \in 1..MAX_CHUNK_SIZE
                       ELSE ps = <<gs[k]>>

\* A long unit whose length is no multiple of the maximum was split, next
\* to a chunk that needed no split.
C25_Witness ==
    /\ chunkPc = "done"
    /\ \E k, l \in 1..Len(GreedyOf(text)) :
          /\ Len(GreedyOf(text)[k]) > MAX_CHUNK_SIZE
          /\ Len(GreedyOf(text)[k]) % MAX_CHUNK_SIZE # 0
          /\ Len(GreedyOf(text)[l]) <= MAX_CHUNK_SIZE
    /\ Len(chunks) >= 3

\* ------------------------------------------------------------------------
\* Claims about the guideline store
\* ------------------------------------------------------------------------
ResultNames(r) == {r[k].name : k \in 1..Len(r)}

\* The store contents a getAll result describes.
AsStore(r) ==
    [n \in Names |->
        IF n \in ResultNames(r)
        THEN r[CHOOSE k \in 1..Len(r) : r[k].name = n].content
        ELSE Absent]

OnePerName(r) == \A k, l \in 1..Len(r) : r[k].name = r[l].name => k = l

ResolvedGets == {i \in 1..Len(calls) : calls[i].op = "get" /\ calls[i].pc = "resolved"}
WriteCalls == {i \in 1..Len(calls) : IsWrite(calls[i])}

\* C4: a get issued once the last save (clear) has resolved, with no other
\* write overlapping it, returns exactly the saved records, one per name
\* (returns nothing after a clear, and nothing on a never-initialised store).
C4_GetAfterWrite ==
    \A i \in ResolvedGets :
        calls[i].quiet =>
            /\ AsStore(calls[i].result) = calls[i].expect
            /\ OnePerName(calls[i].result)

\* A get that followed a resolved save returned its records while the
\* store held a different, leftover name before the save.
C4_Witness ==
    \E i \in ResolvedGets :
        /\ calls[i].quiet
        /\ calls[i].result # <<>>
        /\ \E w \in WriteCalls : w < i /\ calls[w].op = "save"
        /\ \E n \in Names : HasName(initStore, n) /\ n \notin ResultNames(calls[i].result)

\* The complete collections: the initial one and the target of every write
\* call made so far.
Versions == {initStore} \cup {Target(calls[w]) : w \in WriteCalls}

\* C5: a get that runs concurrently with a save observes a complete
\* collection (the previous or the new one), never the cleared or a
\* partially inserted store.
C5_GetSeesCompleteCollection ==
    \A i \in ResolvedGets : AsStore(calls[i].result) \in Versions

\* A get that overlapped a save of two files returned those two files.
C5_Witness ==
    \E i \in ResolvedGets :
        /\ ~calls[i].quiet
        /\ Len(calls[i].result) = 2
        /\ AsStore(calls[i].result) # initStore

Quiescent ==
    /\ openQueue = <<>>
    /\ \A i \in 1..Len(calls) : calls[i].pc = "resolved"
    /\ \A i \in 1..Len(txs) : txs[i].done

WriteTxs == {i \in 1..Len(txs) : txs[i].mode = "readwrite"}
LastWriteTx == CHOOSE i \in WriteTxs : \A j \in WriteTxs : j <= i

\* C6: once overlapping saves have all settled, the store holds exactly the
\* collection of one of them, the one whose transaction the engine ran last.
C6_LastWriteWins ==
    Quiescent =>
        IF WriteTxs = {} THEN store = initStore
        ELSE store = Target(calls[txs[LastWriteTx].call])

\* Two saves with different targets overlapped and both have settled.
C6_Witness ==
    /\ Quiescent
    /\ \E i, j \in WriteCalls :
        /\ i < j
        /\ calls[i].op = "save" /\ calls[j].op = "save"
        /\ ~calls[i].quiet /\ ~calls[j].quiet
        /\ Target(calls[i]) # Target(calls[j])
        /\ Target(calls[i]) # EmptyStore /\ Target(calls[j]) # EmptyStore

\* Two write calls made one after the other with the same input.
Repeated(i, j) ==
    /\ i \in WriteCalls /\ j \in WriteCalls /\ i < j
    /\ \A k \in WriteCalls : ~(i < k /\ k < j)
    /\ calls[i].pc = "resolved" /\ calls[j].pc = "resolved"
    /\ calls[i].quiet /\ calls[j].quiet
    /\ calls[i].op = calls[j].op
    /\ calls[i].files = calls[j].files

\* C7: a save repeated with the same input leaves the store as the first
\* call left it, and a repeated clear leaves the store empty.
C7_Idempotent ==
    \A i, j \in 1..Len(calls) :
        Repeated(i, j) =>
            /\ calls[j].after = calls[i].after
            /\ (calls[j].op = "clear" => calls[j].after = EmptyStore)

\* Both a repeated non-empty save and a repeated clear on a store that was
\* not empty have happened.
C7_Witness ==
    \E i, j \in 1..Len(calls) :
        /\ Repeated(i, j)
        /\ initStore # EmptyStore
        /\ (calls[i].op = "save" => calls[i].files # <<>>)

\* ------------------------------------------------------------------------
\* Claims about generateReport
\* ------------------------------------------------------------------------
\* The response text is non-empty valid JSON with all four fields present.
CompleteResponse(resp) ==
    /\ resp.kind = "text"
    /\ resp.text.form = "object"
    /\ \A f \in ReportFields : resp.text.fields[f] # "absent"

Finished(r) == r.pc \in {"returned", "threw"}

\* C8: generateReport returns a value only for a response that is valid
\* JSON with all four top-level fields; for every other response it throws
\* and produces no report object.
C8_ReturnsOnlyComplete ==
    \A i \in 1..Len(runs) :
        /\ runs[i].pc = "returned" => CompleteResponse(runs[i].resp)
        /\ (Finished(runs[i]) /\ ~CompleteResponse(runs[i].resp)) =>
              (runs[i].pc = "threw" /\ runs[i].result = NoReport)

\* A failure the claim names: the request was rejected, or the body was
\* empty or not JSON.
NamedFailure(resp) ==
    \/ resp.kind = "reject"
    \/ resp.kind = "text" /\ resp.text.form \in {"empty", "malformed"}

\* C9: every invocation issues exactly one generation request; on a
\* failure no second request is issued, exactly one error is thrown and no
\* report value is produced.
C9_OneRequestAllOrNothing ==
    \A i \in 1..Len(runs) :
        /\ runs[i].requests = 1
        /\ runs[i].thrown <= 1
        /\ runs[i].pc = "threw" <=> runs[i].thrown = 1
        /\ runs[i].pc = "threw" => runs[i].result = NoReport
        /\ runs[i].pc = "returned" => runs[i].result # NoReport
        /\ (Finished(runs[i]) /\ NamedFailure(runs[i].resp)) => runs[i].pc = "threw"

\* An invocation whose response body was malformed has thrown.
C9_Witness ==
    \E i \in 1..Len(runs) :
        /\ runs[i].pc = "threw"
        /\ runs[i].resp.kind = "text"
        /\ runs[i].resp.text.form = "malformed"

\* ------------------------------------------------------------------------
\* Claims about the progress of an analysis run
\* ------------------------------------------------------------------------
NonDecreasing(q) == \A k \in 1..(Len(q) - 1) : q[k] <= q[k + 1]
InPercentRange(q) == \A k \in 1..Len(q) : 0 <= q[k] /\ q[k] <= 100
Contains(q, v) == \E k \in 1..Len(q) : q[k] = v

\* C10: during an analysis run the percentages passed to onProgress, and
\* with them the progress value of the UI from the start of the run, never
\* decrease and lie in [0,100]; once 100 has been reported the run does not
\* fail: it ends by returning a report.
C10_ProgressMonotone ==
    \A i \in 1..Len(runs) :
        /\ NonDecreasing(runs[i].trace) /\ InPercentRange(runs[i].trace)
        /\ NonDecreasing(shown) /\ InPercentRange(shown)
        /\ shown = <<0>> \o runs[i].trace
        /\ progress = Last(shown)
        /\ Contains(runs[i].trace, 100) =>
              /\ runs[i].pc \in {"sleeping", "returned"}
              /\ runs[i].pc = "returned" =>
                    (appState = "REPORT" /\ reportData = runs[i].result /\ reportData # NoReport)

\* A run has reported 85, 95 and 100 and has returned its report.
C10_Witness ==
    \E i \in 1..Len(runs) :
        /\ runs[i].pc = "returned"
        /\ runs[i].trace = <<85, 95, 100>>
        /\ shown = <<0, 85, 95, 100>>
        /\ appState = "REPORT"

\* C10, for any number of runs: the percentages each run passes to
\* onProgress never decrease, lie in [0,100] and hold 100 only on a run
\* that goes on to return; the values progress was set to since the latest
\* run began never decrease and lie in [0,100].
C10_ProgressAcrossRuns ==
    /\ \A i \in 1..Len(runs) :
          /\ NonDecreasing(runs[i].trace) /\ InPercentRange(runs[i].trace)
          /\ Contains(runs[i].trace, 100) => runs[i].pc \in {"sleeping", "returned"}
    /\ NonDecreasing(shown) /\ InPercentRange(shown)

\* ------------------------------------------------------------------------
\* Claims about the Error state of the App
\* ------------------------------------------------------------------------
\* Run i fails in this step.
RunFails(i) ==
    /\ i <= Len(runs')
    /\ runs[i].pc = "awaiting"
    /\ runs'[i].pc = "threw"

\* A handleFullReset completes in this step, one that was requested by a
\* click made since the Error state was entered.
ResetCompletes ==
    \E c \in 1..Len(calls) :
        /\ calls[c].op = "clear"
        /\ calls[c].pc # "resolved"
        /\ calls'[c].pc = "resolved"
        /\ c > errorSince

\* C11: a failing generateReport takes the app from Processing to Error
\* with a message; the Error state is left only by the full reset the user
\* asks for there, which leads to Idle, and not by the late completion of
\* another operation.
C11_ErrorTerminal ==
    [][/\ \A i \in 1..Len(runs) :
              RunFails(i) =>
                  (appState = "PROCESSING" /\ appState' = "ERROR" /\ error' # NoError)
       /\ (appState = "ERROR" /\ appState' # "ERROR") =>
              (appState' = "IDLE" /\ ResetCompletes)]_vars

\* The reads of a guideline batch end in this step with a failure.
GuidelineReadFails ==
    \E k \in 1..Len(adds) :
        /\ Len(adds') < Len(adds)
        /\ adds' = RemoveAt(adds, k)
        /\ ReadFails(adds[k])

\* C12: when the text extraction of an uploaded guideline file fails, the
\* app is put into the Error state with a message for the user.
C12_ReadFailureToError ==
    [][GuidelineReadFails => (appState' = "ERROR" /\ error' # NoError)]_vars

\* ------------------------------------------------------------------------
\* Claims about the file collections
\* ------------------------------------------------------------------------
UniqueNames(files) ==
    \A k, l \in 1..Len(files) : files[k].name = files[l].name => k = l

\* C17: no two entries of the guideline collection share a name, whatever
\* batches were added (a batch with a repeated name, a batch repeating a
\* listed name), whatever was removed and whatever the initial load found.
C17_GuidelineNamesUnique == UniqueNames(guidelineFiles)

\* C18: no two entries of the evaluation collection of FileUpload share a
\* name, whatever was dropped and removed.
C18_EvaluationNamesUnique == UniqueNames(evaluationFiles)

\* ------------------------------------------------------------------------
\* Claims about the chat session inside the App
\* ------------------------------------------------------------------------
\* C16: whenever a chat session is active, the app holds a report and the
\* session was started with exactly that report.
C16_ChatOnlyWithItsReport ==
    chat.started => (reportData # NoReport /\ chat.seed = reportData)

\* ------------------------------------------------------------------------
\* Claims about startChat and askQuestion
\* ------------------------------------------------------------------------
FailedAsks == {i \in 1..Len(asks) : asks[i].sent = 1 /\ asks[i].outcome = "error"}

\* C13: once a chat has been started, askQuestion does not throw; when the
\* send fails it returns one fixed apology string, the same for every
\* error, the session is kept and asking again remains possible.
C13_FixedApology ==
    /\ \A i \in 1..Len(asks) : asks[i].sent = 1 => asks[i].pc # "threw"
    /\ \A i, j \in FailedAsks : asks[i].value = asks[j].value
    /\ \A i \in FailedAsks : chat.started

EarlyAsks == {i \in 1..Len(asks) : asks[i].seen = 0}

\* C14: askQuestion called before any startChat sends nothing, leaves the
\* session unset, and signals the violation by throwing or by returning the
\* fixed "not started" message, the same way on every such call and
\* whichever version of the service the call site is bound to.
C14_NotStartedConsistent ==
    /\ started = <<>> => ~chat.started
    /\ \A i \in EarlyAsks :
          /\ asks[i].sent = 0
          /\ asks[i].pc \in {"returned", "threw"}
          /\ asks[i].value = NotStarted(service).value
          /\ \A svc \in ChatServices : NotStarted(svc) = NotStarted(service)
    /\ \A i, j \in EarlyAsks : asks[i].pc = asks[j].pc /\ asks[i].value = asks[j].value

\* C15: the module holds exactly the session of the latest startChat, and
\* every askQuestion is sent to the session seeded with the report of the
\* latest startChat that preceded it.
C15_OneActiveSession ==
    /\ chat = IF started = <<>> THEN NoChat ELSE NewChat(started[Len(started)])
    /\ \A i \in 1..Len(asks) :
          IF asks[i].seen = 0
          THEN asks[i].sent = 0
          ELSE asks[i].sent = 1 /\ asks[i].session = NewChat(started[asks[i].seen])

\* After two chats were started with different reports, a question went to
\* the second while a question sent to the first was still unanswered.
C15_Witness ==
    /\ Len(started) = 2
    /\ started[1] # started[2]
    /\ \E i, j \in 1..Len(asks) :
          /\ i < j
          /\ asks[i].seen = 1 /\ asks[i].pc = "sending"
          /\ asks[j].seen = 2 /\ asks[j].session.seed = started[2]

\* ------------------------------------------------------------------------
\* Claims about readFileContent
\* ------------------------------------------------------------------------
SupportedTypes == {PdfType, TextType, DocxType, XlsxType}

ReaderOfType(type) ==
    CASE type = PdfType -> "readPdfFile"
      [] type = TextType -> "readTextFile"
      [] type = DocxType -> "readDocxFile"
      [] type = XlsxType -> "readXlsxFile"

ReaderOfExtension(ext) ==
    CASE ext = <<"pdf">> -> "readPdfFile"
      [] ext = <<"txt">> -> "readTextFile"
      [] ext = <<"docx">> -> "readDocxFile"
      [] ext = <<"xlsx">> -> "readXlsxFile"
      [] OTHER -> "none"

HasDot(name) == \E k \in 1..Len(name) : name[k] = Dot

\* The extension of a file name: what follows its last dot, in lower case;
\* a name without a dot has none.
NameExtension(name) ==
    IF HasDot(name) THEN extension([type |-> "", name |-> name]) ELSE <<>>

\* C19: the reader is the one of the declared media type whenever that type
\* is one of the four supported types; the extension of the name decides
\* only when the declared type is absent or unsupported.
C19_TypeBeforeExtension ==
    readPc \notin {"idle", "start"} =>
        IF file.type \in SupportedTypes
        THEN decoder = ReaderOfType(file.type)
        ELSE decoder = ReaderOfExtension(extension(file))

\* C20: a file whose declared type is none of the four supported types and
\* whose extension is none of pdf, txt, docx, xlsx is handed to no reader;
\* the call resolves to the placeholder that carries the name of the file.
C20_PlaceholderForUnknown ==
    (/\ readPc \notin {"idle", "start"}
     /\ file.type \notin SupportedTypes
     /\ NameExtension(file.name) \notin {<<"pdf">>, <<"txt">>, <<"docx">>, <<"xlsx">>}) =>
        (decoder = "none" /\ readPc = "resolved" /\ readResult = Placeholder(file))

\* ------------------------------------------------------------------------
\* Claims about the states of the App
\* ------------------------------------------------------------------------
AllowedMoves ==
    {<<"IDLE", "PROCESSING">>, <<"PROCESSING", "REPORT">>,
     <<"PROCESSING", "ERROR">>, <<"REPORT", "IDLE">>, <<"ERROR", "IDLE">>}

\* C30: the Report state always comes with a report and the Error state
\* with an error message, and the app state only moves from Idle to
\* Processing, from Processing to Report or Error, and from Report or
\* Error to Idle.
C30_StateMachine ==
    [][/\ appState' = "REPORT" => reportData' # NoReport
       /\ appState' = "ERROR" => error' # NoError
       /\ appState' # appState => <<appState, appState'>> \in AllowedMoves]_vars

\* The records of a collection held in memory.
RecordsOf(files) == {files[k] : k \in 1..Len(files)}

\* No call of the store is outstanding and no batch is being read.
NoGuidelineOperation == Quiescent /\ adds = <<>>

\* C28: whenever no guideline operation (initial load, add, remove, reset)
\* is in flight, the store and the guideline collection in memory hold the
\* same records.
C28_MemoryMatchesStore ==
    NoGuidelineOperation => RecordsOf(guidelineFiles) = RecordsOf(StoreGetAll(store))

\* ------------------------------------------------------------------------
\* Claims about the report and the full reset
\* ------------------------------------------------------------------------
\* What a completed full reset leaves behind.
AfterFullReset ==
    /\ appState = "IDLE"
    /\ reportData = NoReport
    /\ error = NoError
    /\ guidelineFiles = <<>>
    /\ store = EmptyStore

\* The report of the app is replaced in this step by what run i returns.
ReportCreatedBy(i) ==
    /\ runs[i].pc = "sleeping"
    /\ runs'[i].pc = "returned"
    /\ reportData' = runs'[i].result
    /\ CompleteResponse(runs'[i].resp)

\* C23: the report is set as a whole by a generateReport that returned
\* and is otherwise only dropped, never changed; and once a full reset has
\* completed, the report and the error are null, the app is Idle and the
\* guideline collection is empty in memory and in the store, whatever
\* operations started before the reset complete afterwards.
C23_ReportLifecycle ==
    /\ [](resetDone => AfterFullReset)
    /\ [][reportData' # reportData =>
             (reportData' = NoReport \/ \E i \in 1..Len(runs) : ReportCreatedBy(i))]_vars

\* ------------------------------------------------------------------------
\* Claims about a batch of uploaded files
\* ------------------------------------------------------------------------
\* The reads of an evaluation batch end in this step with a failure, in a
\* FileUpload that stays mounted.
EvaluationReadFails ==
    \E k \in 1..Len(drops) :
        /\ FileUploadShown /\ FileUploadShown'
        /\ Len(drops') < Len(drops)
        /\ drops' = RemoveAt(drops, k)
        /\ ReadFails(drops[k])

\* An error message is on the screen: the Error view shows the error of
\* the App, FileUpload shows its own.
ErrorOnScreen ==
    \/ appState = "ERROR" /\ error # NoError
    \/ FileUploadShown /\ uploadError # NoError

\* C21: when the read of any file of a dropped batch fails, no file of the
\* batch is added to the guideline or the evaluation collection, nothing is
\* written to the store, and one error message is shown for the batch.
C21_BatchAllOrNothing ==
    [][(GuidelineReadFails \/ EvaluationReadFails) =>
          /\ guidelineFiles' = guidelineFiles
          /\ evaluationFiles' = evaluationFiles
          /\ store' = store /\ calls' = calls /\ txs' = txs
          /\ ErrorOnScreen']_vars

\* ------------------------------------------------------------------------
\* Claims about the order of the guideline collection
\* ------------------------------------------------------------------------
DroppedOnce(n) == Cardinality({k \in 1..Len(dropped) : dropped[k] = n}) = 1
DropIndex(n) == CHOOSE k \in 1..Len(dropped) : dropped[k] = n

\* A guideline file is removed by the user in this step.
GuidelineRemoved ==
    /\ adds' = adds
    /\ Len(calls') = Len(calls) + 1
    /\ Len(guidelineFiles') < Len(guidelineFiles)

\* C26: the guideline collection lists the files in the order they were
\* dropped, also when a batch dropped later is read first (stated for the
\* names that were dropped once); removing a name leaves the other entries
\* as they were, in their order.
C26_UploadOrder ==
    /\ [](\A i, j \in 1..Len(guidelineFiles) :
            (/\ i < j
             /\ DroppedOnce(guidelineFiles[i].name)
             /\ DroppedOnce(guidelineFiles[j].name)) =>
                DropIndex(guidelineFiles[i].name) < DropIndex(guidelineFiles[j].name))
    /\ [][GuidelineRemoved =>
             \E n \in Names :
                 guidelineFiles' = SelectSeq(guidelineFiles, LAMBDA f : f.name # n)]_vars

\* ------------------------------------------------------------------------
\* Claims about the message list of the report chat
\* ------------------------------------------------------------------------
\* The asks made in the chat session that is active now.
SessionAsks == {i \in 1..Len(asks) : asks[i].seen = Len(started)}

\* The positions of the messages of a role.
PositionsOf(role) ==
    SelectSeq([k \in 1..Len(messages) |-> k], LAMBDA k : messages[k].role = role)

\* The list grows in this step by one message at its end.
OneAppended ==
    /\ Len(messages') = Len(messages) + 1
    /\ SubSeq(messages', 1, Len(messages)) = messages

\* C22: within one chat session every change of the message list appends
\* one message at the end and leaves the earlier ones as they are; every
\* question submitted has exactly one user message, and exactly one model
\* message once it is answered, which comes after its user message.
C22_MessagesAppendOnly ==
    /\ [][(ReportShown /\ ReportShown' /\ started' = started /\ messages' # messages)
             => OneAppended]_vars
    /\ [](ReportShown =>
            LET users == PositionsOf("user")
                models == PositionsOf("model")
                answered == {i \in SessionAsks : asks[i].pc = "returned"}
            IN  /\ messages[1] = Greeting
                /\ Len(users) = Cardinality(SessionAsks)
                /\ Len(models) = 1 + Cardinality(answered)
                /\ \A k \in 1..(Len(models) - 1) : users[k] < models[k + 1])

\* Two questions were asked and answered in one session, one of them by
\* the apology for a failed send.
C22_Witness ==
    /\ ReportShown
    /\ Len(messages) = 5
    /\ \E i \in SessionAsks : asks[i].outcome = "error"
    /\ \E i \in SessionAsks : asks[i].outcome = "text"

\* C29: in the report chat at most one question is in flight, and after
\* the greeting of the model the user and model messages alternate.
C29_OneQuestionInFlight ==
    ReportShown =>
        /\ Cardinality({i \in SessionAsks : asks[i].pc = "sending"}) <= 1
        /\ \A k \in 1..Len(messages) :
              messages[k].role = IF k % 2 = 1 THEN "model" ELSE "user"

\* A second question is in flight after the first was answered.
C29_Witness ==
    /\ ReportShown
    /\ isLoading
    /\ Len(messages) = 4
    /\ Cardinality({i \in SessionAsks : asks[i].pc = "sending"}) = 1


\* ------------------------------------------------------------------------
\* Claims about saveGuidelinesToDB when the engine fails
\* ------------------------------------------------------------------------
SaveCalls == {c \in 1..Len(calls) : calls[c].op = "save"}

HasTransaction(c) == \E i \in 1..Len(txs) : txs[i].call = c

WasAborted(c) == \E i \in aborted : txs[i].call = c

\* The engine has nothing left to do for call c: its open request is
\* answered and each of its transactions is finished, so no event will
\* reach its handlers any more.
EngineDone(c) ==
    /\ \A k \in 1..Len(openQueue) : openQueue[k] # c
    /\ \A i \in 1..Len(txs) : txs[i].call = c => txs[i].done

\* C27: a save whose open request fails or whose transaction is aborted
\* rejects, no save is left pending once the engine is done with it, a
\* save rejects only after such a failure, and when it has rejected the
\* store holds what it held when the save began.
C27_SaveRejectsCleanly ==
    /\ [](\A c \in SaveCalls :
            /\ EngineDone(c) => ~InFlight(calls[c])
            /\ WasAborted(c) =>
                  calls[c].pc = "rejected" /\ calls[c].after = BeganNow[c]
            /\ calls[c].pc = "rejected" => WasAborted(c) \/ ~HasTransaction(c))
    /\ [][\A c \in SaveCalls :
             (calls[c].pc = "open" /\ calls'[c].pc = "rejected") => store' = store]_vars

\* A save of a non-empty list was aborted when it committed, after a store
\* that held a record had been cleared and written.
C27_Witness ==
    \E c \in SaveCalls :
        /\ WasAborted(c)
        /\ EngineDone(c)
        /\ calls[c].files # <<>>
        /\ BeganNow[c] # EmptyStore

\* Three analyses around a doubled reset click, with one question asked in
\* the report view: the flow in which a late analysis delivers a second
\* report to a mounted ReportQnA (App.tsx:77-109, ReportView.tsx:112-135).
MaxRaceCalls == 6
MaxRaceRuns == 3
MaxRaceAsks == 1
RaceBatch == <<[name |-> "g1", content |-> "x"]>>
RaceBudget == Len(calls) + Len(adds) < MaxRaceCalls
SpecRaceNext ==
    \/ StoreOpenSuccess /\ UNCHANGED <<chunkVars, readVars, faultVars>>
    \/ \E i \in 1..Len(txs) : StoreExecRequest(i) /\ UNCHANGED <<chunkVars, readVars, faultVars>>
    \/ \E i \in 1..Len(txs) : StoreCommit(i) /\ UNCHANGED <<chunkVars, readVars, faultVars>>
    \/ /\ RaceBudget
       /\ Len(adds) < MaxPending
       /\ AddGuidelineFiles(RaceBatch)
       /\ UNCHANGED <<chunkVars, readVars, faultVars, dropped>>
    \/ \E k \in 1..Len(adds) : AddGuidelineFilesRead(k) /\ UNCHANGED <<chunkVars, readVars, faultVars>>
    \/ NextStep /\ UNCHANGED <<chunkVars, readVars, faultVars>>
    \/ /\ Len(drops) < MaxPending
       /\ evaluationFiles = <<>>
       /\ EvaluationDrop(RaceBatch)
       /\ UNCHANGED <<chunkVars, readVars, faultVars>>
    \/ \E k \in 1..Len(drops) : EvaluationDropRead(k) /\ UNCHANGED <<chunkVars, readVars, faultVars>>
    \/ Len(runs) < MaxRaceRuns /\ AnalysisSubmit /\ UNCHANGED <<chunkVars, readVars, faultVars>>
    \/ \E i \in 1..Len(runs), resp \in RunOutcomes :
          RunResponse(i, resp) /\ UNCHANGED <<chunkVars, readVars, faultVars>>
    \/ \E i \in 1..Len(runs) : RunSleepDone(i) /\ UNCHANGED <<chunkVars, readVars, faultVars>>
    \/ Len(asks) < MaxRaceAsks /\ QnASubmit("q1") /\ UNCHANGED <<chunkVars, readVars, faultVars>>
    \/ \E i \in 1..Len(asks) :
          QnAReply(i, [kind |-> "text", text |-> "answer"]) /\ UNCHANGED <<chunkVars, readVars, faultVars>>
    \/ RaceBudget /\ FullResetClick /\ UNCHANGED <<chunkVars, readVars, faultVars>>
SpecRace == SpecAppInit /\ [][SpecRaceNext]_vars
====
